---- MODULE Spec2Model ----
(***************************************************************************)
(* Model of the parser combinators of src/lib.rs: the Parser trait, the    *)
(* primitive parsers Zero, Return and Item, and the combinators Map, Bind  *)
(* and Take.                                                               *)
(*                                                                         *)
(* A &str is modelled as its UTF-8 bytes (a sequence of integers 0..255),  *)
(* because Item slices the input by BYTE index (&input[1..]).  A parser is *)
(* a record naming the struct and its fields; a closure is a record naming *)
(* the closure and the values it captured.  A call yields None, Some(value,*)
(* rest) or a panic (str slicing off a character boundary).                *)
(*                                                                         *)
(* The outermost call is executed step by step (the Bind chain and the     *)
(* Take loop are separate steps); the calls it makes on its child parsers  *)
(* are evaluated by the operator call.                                     *)
(***************************************************************************)
EXTENDS Integers, Sequences, FiniteSets

VARIABLES
    parser,     \* the composed parser whose call is being executed
    stuff,      \* the caller's text (UTF-8 bytes), borrowed by call
    pc,         \* position inside the outermost call
    outcome,    \* what the outermost call returned
    a,          \* Bind::call: the value produced by self.parser
    q,          \* Bind::call: the parser produced by (self.func)(a)
    rest,       \* Bind::call / Take::call: the remainder being threaded
    v,          \* Take::call: the Vec being built
    i,          \* Take::call: iterations of the for loop started so far
    items,      \* number of Item::call applications that returned Some
    applied,    \* number of calls the outermost node made on self.parser
    fEvals      \* arguments (self.func) of the outermost node was evaluated on

vars == <<parser, stuff, pc, outcome, a, q, rest, v, i, items, applied, fEvals>>

(***************************************************************************)
(* Bounds of the model.                                                    *)
(***************************************************************************)
MaxLen == 3        \* longest input text, in characters
MaxCount == 3      \* largest repetition count given to Take

(***************************************************************************)
(* Text: characters, their UTF-8 encoding, and decoding (str::chars).      *)
(***************************************************************************)
\* 'a', 'b' (one byte each), U+00E9 (two bytes: C3 A9), U+20AC (three bytes:
\* E2 82 AC)
Symbols == {97, 98, 233, 8364}

Utf8Char(c) ==
    IF c < 128 THEN <<c>>
    ELSE IF c < 2048 THEN <<192 + (c \div 64), 128 + (c % 64)>>
    ELSE <<224 + (c \div 4096), 128 + ((c \div 64) % 64), 128 + (c % 64)>>

RECURSIVE Utf8(_)
Utf8(cs) == IF cs = <<>> THEN <<>> ELSE Utf8Char(Head(cs)) \o Utf8(Tail(cs))

\* width in bytes of the character whose leading byte is b
Utf8Width(b) == IF b < 128 THEN 1 ELSE IF b < 224 THEN 2 ELSE 3

\* the first character of a non-empty str: input.chars().next()
FirstChar(s) ==
    LET w == Utf8Width(s[1]) IN
    IF w = 1 THEN s[1]
    ELSE IF w = 2 THEN (s[1] % 32) * 64 + (s[2] % 64)
    ELSE (s[1] % 16) * 4096 + (s[2] % 64) * 64 + (s[3] % 64)

\* str::chars collected: the characters of a str
RECURSIVE Chars(_)
Chars(s) ==
    IF s = <<>> THEN <<>>
    ELSE <<FirstChar(s)>> \o Chars(SubSeq(s, Utf8Width(s[1]) + 1, Len(s)))

\* str::is_char_boundary(index), index counted in bytes from 0
IsCharBoundary(s, index) ==
    IF index = 0 \/ index = Len(s) THEN TRUE
    ELSE IF index > Len(s) THEN FALSE
    ELSE ~(s[index + 1] >= 128 /\ s[index + 1] < 192)

RECURSIVE SeqsUpTo(_, _)
SeqsUpTo(S, n) ==
    IF n = 0 THEN {<<>>}
    ELSE LET shorter == SeqsUpTo(S, n - 1) IN
         shorter \cup {Append(t, c) : t \in shorter, c \in S}

Texts == {Utf8(cs) : cs \in SeqsUpTo(Symbols, MaxLen)}

(***************************************************************************)
(* Values produced by parsers, tagged by their Rust type.                  *)
(***************************************************************************)
CharV(c) == [char |-> c]
StrV(s) == [str |-> s]          \* a String, as its characters
IntV(n) == [int |-> n]
VecV(xs) == [vec |-> xs]

IsChar(x) == DOMAIN x = {"char"}
IsStr(x) == DOMAIN x = {"str"}
IsInt(x) == DOMAIN x = {"int"}
IsVec(x) == DOMAIN x = {"vec"}

\* decimal digits of a usize, as characters
RECURSIVE Digits(_)
Digits(n) == IF n < 10 THEN <<48 + n>> ELSE Digits(n \div 10) \o <<48 + (n % 10)>>

\* the Display rendering used by format!("{}", x)
Display(x) ==
    IF IsChar(x) THEN <<x.char>>
    ELSE IF IsStr(x) THEN x.str
    ELSE Digits(x.int)

(***************************************************************************)
(* Outcomes of call: Option<(Out, &str)>, or a panic.                      *)
(***************************************************************************)
None == [tag |-> "None"]
Some(val, remaining) == [tag |-> "Some", val |-> val, rest |-> remaining]
Panic == [tag |-> "Panic"]
Pending == [tag |-> "Pending"]

IsSome(o) == o.tag = "Some"

(***************************************************************************)
(* Parser values: one record per struct.                                   *)
(***************************************************************************)
Zero(phantom) == [k |-> "Zero", phantom |-> phantom]
Return(data) == [k |-> "Return", data |-> data]
Item == [k |-> "Item"]
Map(p, func) == [k |-> "Map", parser |-> p, func |-> func]
Bind(p, func) == [k |-> "Bind", parser |-> p, func |-> func]
Take(count, p) == [k |-> "Take", count |-> count, parser |-> p]

NoParser == [k |-> "-"]
NoValue == [none |-> TRUE]

(***************************************************************************)
(* Closures.  A closure given to map is a record [fn |-> name]; a closure  *)
(* given to bind may also carry the values it captured.                    *)
(***************************************************************************)
\* |x| x
identity == [fn |-> "identity"]
\* |x| format!("hi, {}", x)
hi == [fn |-> "hi"]
\* |it| it.len()
len == [fn |-> "len"]
\* |it| it.iter().map(|c| format!("{}!", c)).collect::<Vec<String>>()
bangs == [fn |-> "bangs"]

\* |x| Return::new(x)
return == [fn |-> "return"]
\* |x| Return::new(format!("hi, {}", x))
hi_return == [fn |-> "hi_return"]
\* |_| Item::new()
then_item == [fn |-> "then_item"]
\* |_| Zero::new()
then_zero == [fn |-> "then_zero"]
\* |a| f(a).bind(g)
bind_then(f, g) == [fn |-> "bind_then", f |-> f, g |-> g]
\* |x| Return::new(acc ++ [x])
push_onto(acc) == [fn |-> "push_onto", acc |-> acc]
\* |acc| p.bind(|x| Return::new(acc ++ [x]))
fold_step(p) == [fn |-> "fold_step", parser |-> p]

HiPrefix == <<104, 105, 44, 32>>     \* "hi, "
Bang == 33                           \* '!'

\* (self.func)(a) in Map::call
ApplyFunc(func, x) ==
    CASE func.fn = "identity" -> x
      [] func.fn = "hi" -> StrV(HiPrefix \o Display(x))
      [] func.fn = "len" -> IntV(Len(x.vec))
      [] func.fn = "bangs" ->
            VecV([j \in 1..Len(x.vec) |-> StrV(Append(Display(x.vec[j]), Bang))])

\* (self.func)(a) in Bind::call: the parser the continuation builds
RECURSIVE ApplyCont(_, _)
ApplyCont(func, x) ==
    CASE func.fn = "return" -> Return(x)
      [] func.fn = "hi_return" -> Return(StrV(HiPrefix \o Display(x)))
      [] func.fn = "then_item" -> Item
      [] func.fn = "then_zero" -> Zero(<<"char">>)
      [] func.fn = "bind_then" -> Bind(ApplyCont(func.f, x), func.g)
      [] func.fn = "push_onto" -> Return(VecV(Append(func.acc.vec, x)))
      [] func.fn = "fold_step" -> Bind(func.parser, push_onto(x))

(***************************************************************************)
(* Rust types (the associated type Out), used to enumerate only parsers    *)
(* that compile.  A type is a sequence of names, <<"vec", "char">> being   *)
(* Vec<char>; <<>> marks an ill-typed composition.                         *)
(***************************************************************************)
Bad == <<>>
Displayable(T) == T \in {<<"char">>, <<"str">>, <<"int">>}

FuncType(func, T) ==
    CASE T = Bad -> Bad
      [] func.fn = "identity" -> T
      [] func.fn = "hi" -> IF Displayable(T) THEN <<"str">> ELSE Bad
      [] func.fn = "len" -> IF Head(T) = "vec" THEN <<"int">> ELSE Bad
      [] func.fn = "bangs" ->
            IF Head(T) = "vec" /\ Displayable(Tail(T)) THEN <<"vec", "str">> ELSE Bad

ContType(func, T) ==
    CASE T = Bad -> Bad
      [] func.fn = "return" -> T
      [] func.fn = "hi_return" -> IF Displayable(T) THEN <<"str">> ELSE Bad
      [] func.fn = "then_item" -> <<"char">>
      [] func.fn = "then_zero" -> <<"char">>
      [] OTHER -> Bad

RECURSIVE TypeOf(_)
TypeOf(p) ==
    CASE p.k = "Zero" -> p.phantom
      [] p.k = "Return" -> IF IsChar(p.data) THEN <<"char">> ELSE Bad
      [] p.k = "Item" -> <<"char">>
      [] p.k = "Map" -> FuncType(p.func, TypeOf(p.parser))
      [] p.k = "Bind" -> ContType(p.func, TypeOf(p.parser))
      [] p.k = "Take" ->
            IF TypeOf(p.parser) = Bad THEN Bad ELSE <<"vec">> \o TypeOf(p.parser)

(***************************************************************************)
(* The parsers and counts the model is run on.                             *)
(***************************************************************************)
Funcs == {identity, hi, len, bangs}
Conts == {return, hi_return, then_item, then_zero}
NegCounts == {-1, -2}
Counts == NegCounts \cup (0..MaxCount)

Wrap(ps) ==
    {Map(p, f) : p \in ps, f \in Funcs}
        \cup {Bind(p, f) : p \in ps, f \in Conts}
        \cup {Take(n, p) : n \in Counts, p \in ps}

Primitives == {Zero(<<"char">>), Return(CharV(98)), Item}
Depth1 == Primitives \cup Wrap(Primitives)
Depth2 == Depth1 \cup Wrap(Depth1)
Parsers == {p \in Depth2 : TypeOf(p) # Bad}

(***************************************************************************)
(* Parser::call of each struct, as a function of the parser and the input. *)
(* The result is [out |-> the outcome, items |-> the number of Item        *)
(* applications that returned Some during the call].                       *)
(***************************************************************************)
\* mutant: the range written 0..=count
InRange_inclusive(n, count) == n <= count

\* mutant: the range written 0..count.abs()
InRange_abs(n, count) == n < (IF count < 0 THEN -count ELSE count)

\* for _ in 0..count: is iteration number n (from 0) inside the range?
InRange(n, count) == n < count

\* mutant: v.insert(0, item)
Push_front(vec, item) == <<item>> \o vec

\* v.push(item)
Push(vec, item) == Append(vec, item)

Zero_call(input) == [out |-> None, items |-> 0]

Return_call(self, input) == [out |-> Some(self.data, input), items |-> 0]

\* mutant: the remainder is &input[0..]
Item_call_noAdvance(input) ==
    IF input = <<>> THEN [out |-> None, items |-> 0]
    ELSE [out |-> Some(CharV(FirstChar(input)), input), items |-> 1]

Item_call(input) ==
    IF input = <<>> THEN [out |-> None, items |-> 0]
    ELSE IF IsCharBoundary(input, 1)
         THEN [out |-> Some(CharV(FirstChar(input)), SubSeq(input, 2, Len(input))),
               items |-> 1]
         ELSE [out |-> Panic, items |-> 0]

RECURSIVE call(_, _)
RECURSIVE Take_loop(_, _, _, _, _)

\* mutant: the value is paired with the input instead of the remainder
Map_call_keepsInput(self, input) ==
    LET r == call(self.parser, input) IN
    IF IsSome(r.out)
    THEN [out |-> Some(ApplyFunc(self.func, r.out.val), input), items |-> r.items]
    ELSE r

Map_call(self, input) ==
    LET r == call(self.parser, input) IN
    IF IsSome(r.out)
    THEN [out |-> Some(ApplyFunc(self.func, r.out.val), r.out.rest), items |-> r.items]
    ELSE r

\* mutant: the continuation's parser is run on the input instead of the remainder
Bind_call_onInput(self, input) ==
    LET r == call(self.parser, input) IN
    IF IsSome(r.out)
    THEN LET r2 == call(ApplyCont(self.func, r.out.val), input) IN
         [out |-> r2.out, items |-> r.items + r2.items]
    ELSE r

Bind_call(self, input) ==
    LET r == call(self.parser, input) IN
    IF IsSome(r.out)
    THEN LET r2 == call(ApplyCont(self.func, r.out.val), r.out.rest) IN
         [out |-> r2.out, items |-> r.items + r2.items]
    ELSE r

Take_loop(self, n, vec, remaining, count) ==
    IF InRange(n, self.count)
    THEN LET r == call(self.parser, remaining) IN
         IF IsSome(r.out)
         THEN Take_loop(self, n + 1, Push(vec, r.out.val), r.out.rest, count + r.items)
         ELSE [out |-> r.out, items |-> count + r.items]
    ELSE [out |-> Some(VecV(vec), remaining), items |-> count]

Take_call(self, input) == Take_loop(self, 0, <<>>, input, 0)

\* dynamic dispatch of Parser::call on the struct
call(self, input) ==
    CASE self.k = "Zero" -> Zero_call(input)
      [] self.k = "Return" -> Return_call(self, input)
      [] self.k = "Item" -> Item_call(input)
      [] self.k = "Map" -> Map_call(self, input)
      [] self.k = "Bind" -> Bind_call(self, input)
      [] self.k = "Take" -> Take_call(self, input)

(***************************************************************************)
(* The state machine: the outermost call, step by step.                    *)
(***************************************************************************)
Init ==
    /\ parser \in Parsers
    /\ stuff \in Texts
    /\ pc = "start"
    /\ outcome = Pending
    /\ a = NoValue
    /\ q = NoParser
    /\ rest = <<>>
    /\ v = <<>>
    /\ i = 0
    /\ items = 0
    /\ applied = 0
    /\ fEvals = <<>>

Returns(r) ==
    /\ outcome' = r.out
    /\ items' = items + r.items
    /\ pc' = "done"

\* Zero::call
CallZero ==
    /\ pc = "start" /\ parser.k = "Zero"
    /\ Returns(Zero_call(stuff))
    /\ UNCHANGED <<parser, stuff, a, q, rest, v, i, applied, fEvals>>

\* Return::call
CallReturn ==
    /\ pc = "start" /\ parser.k = "Return"
    /\ Returns(Return_call(parser, stuff))
    /\ UNCHANGED <<parser, stuff, a, q, rest, v, i, applied, fEvals>>

\* Item::call
CallItem ==
    /\ pc = "start" /\ parser.k = "Item"
    /\ Returns(Item_call(stuff))
    /\ UNCHANGED <<parser, stuff, a, q, rest, v, i, applied, fEvals>>

\* Map::call
CallMap ==
    /\ pc = "start" /\ parser.k = "Map"
    /\ Returns(Map_call(parser, stuff))
    /\ applied' = applied + 1
    /\ fEvals' = LET r == call(parser.parser, stuff) IN
                 IF IsSome(r.out) THEN Append(fEvals, r.out.val) ELSE fEvals
    /\ UNCHANGED <<parser, stuff, a, q, rest, v, i>>

\* Bind::call, self.parser.call(input) and the test of and_then
BindCallParser ==
    /\ pc = "start" /\ parser.k = "Bind"
    /\ LET r == call(parser.parser, stuff) IN
       /\ applied' = applied + 1
       /\ items' = items + r.items
       /\ IF IsSome(r.out)
          THEN /\ a' = r.out.val
               /\ rest' = r.out.rest
               /\ pc' = "bind_func"
               /\ UNCHANGED outcome
          ELSE /\ outcome' = r.out
               /\ pc' = "done"
               /\ UNCHANGED <<a, rest>>
    /\ UNCHANGED <<parser, stuff, q, v, i, fEvals>>

\* Bind::call, (self.func)(a)
BindApplyFunc ==
    /\ pc = "bind_func"
    /\ q' = ApplyCont(parser.func, a)
    /\ fEvals' = Append(fEvals, a)
    /\ pc' = "bind_next"
    /\ UNCHANGED <<parser, stuff, outcome, a, rest, v, i, items, applied>>

\* mutant: the parser the continuation built is run on the input
BindCallNext_onInput ==
    /\ pc = "bind_next"
    /\ Returns(call(q, stuff))
    /\ UNCHANGED <<parser, stuff, a, q, rest, v, i, applied, fEvals>>

\* Bind::call, .call(b) on the parser the continuation built
BindCallNext ==
    /\ pc = "bind_next"
    /\ Returns(call(q, rest))
    /\ UNCHANGED <<parser, stuff, a, q, rest, v, i, applied, fEvals>>

\* Take::call, the two let mut
TakeBegin ==
    /\ pc = "start" /\ parser.k = "Take"
    /\ v' = <<>>
    /\ rest' = stuff
    /\ i' = 0
    /\ pc' = "take_loop"
    /\ UNCHANGED <<parser, stuff, outcome, a, q, items, applied, fEvals>>

\* mutant: every iteration parses the input instead of the remainder
TakeIterate_sameInput ==
    /\ pc = "take_loop"
    /\ InRange(i, parser.count)
    /\ LET r == call(parser.parser, stuff) IN
       /\ applied' = applied + 1
       /\ items' = items + r.items
       /\ IF IsSome(r.out)
          THEN /\ v' = Push(v, r.out.val)
               /\ rest' = r.out.rest
               /\ i' = i + 1
               /\ UNCHANGED <<pc, outcome>>
          ELSE /\ outcome' = r.out
               /\ pc' = "done"
               /\ UNCHANGED <<v, rest, i>>
    /\ UNCHANGED <<parser, stuff, a, q, fEvals>>

\* mutant: a failed application ends the loop with what was collected so far
TakeIterate_partial ==
    /\ pc = "take_loop"
    /\ InRange(i, parser.count)
    /\ LET r == call(parser.parser, rest) IN
       /\ applied' = applied + 1
       /\ items' = items + r.items
       /\ IF IsSome(r.out)
          THEN /\ v' = Push(v, r.out.val)
               /\ rest' = r.out.rest
               /\ i' = i + 1
               /\ UNCHANGED <<pc, outcome>>
          ELSE /\ outcome' = Some(VecV(v), rest)
               /\ pc' = "done"
               /\ UNCHANGED <<v, rest, i>>
    /\ UNCHANGED <<parser, stuff, a, q, fEvals>>

\* Take::call, one iteration of the for loop
TakeIterate ==
    /\ pc = "take_loop"
    /\ InRange(i, parser.count)
    /\ LET r == call(parser.parser, rest) IN
       /\ applied' = applied + 1
       /\ items' = items + r.items
       /\ IF IsSome(r.out)
          THEN /\ v' = Push(v, r.out.val)
               /\ rest' = r.out.rest
               /\ i' = i + 1
               /\ UNCHANGED <<pc, outcome>>
          ELSE /\ outcome' = r.out
               /\ pc' = "done"
               /\ UNCHANGED <<v, rest, i>>
    /\ UNCHANGED <<parser, stuff, a, q, fEvals>>

\* Take::call, the loop is over: Some((v, rest))
TakeFinish ==
    /\ pc = "take_loop"
    /\ ~InRange(i, parser.count)
    /\ outcome' = Some(VecV(v), rest)
    /\ pc' = "done"
    /\ UNCHANGED <<parser, stuff, a, q, rest, v, i, items, applied, fEvals>>

Next ==
    \/ CallZero
    \/ CallReturn
    \/ CallItem
    \/ CallMap
    \/ BindCallParser
    \/ BindApplyFunc
    \/ BindCallNext
    \/ TakeBegin
    \/ TakeIterate
    \/ TakeFinish

Spec == Init /\ [][Next]_vars

TypeOK ==
    /\ pc \in {"start", "bind_func", "bind_next", "take_loop", "done"}
    /\ outcome.tag \in {"Pending", "None", "Some", "Panic"}
    /\ (pc = "done") = (outcome # Pending)

(***************************************************************************)
(* Definitions used to state the properties.                               *)
(***************************************************************************)
\* The outcome of the j-th of a chain of applications of p (j >= 1), the
\* first on s and each later one on the remainder left by the one before; or
\* the outcome that broke the chain, if an earlier application did not succeed.
RECURSIVE Application(_, _, _)
Application(p, s, j) ==
    IF j = 1 THEN call(p, s).out
    ELSE LET prev == Application(p, s, j - 1) IN
         IF IsSome(prev) THEN call(p, prev.rest).out ELSE prev

\* bind folded over n repetitions of p, from Return of the empty sequence
RECURSIVE TakeFold(_, _)
TakeFold(n, p) ==
    IF n = 0 THEN Return(VecV(<<>>))
    ELSE Bind(TakeFold(n - 1, p), fold_step(p))

\* s with its first n characters removed
DropSymbols(s, n) == Utf8(SubSeq(Chars(s), n + 1, Len(Chars(s))))

Done == pc = "done"

(***************************************************************************)
(* C1: Item.call fails on the empty input, and on any other input succeeds *)
(* with the first symbol paired with the input without that first symbol,  *)
(* whatever the width of the symbol.                                       *)
(***************************************************************************)
ItemRemovesFirstSymbol ==
    (Done /\ parser = Item) =>
        IF stuff = <<>>
        THEN outcome = None
        ELSE outcome = Some(CharV(Chars(stuff)[1]), DropSymbols(stuff, 1))

(***************************************************************************)
(* C2: when Take(count, p) with count >= 0 succeeds, the sequence has      *)
(* exactly count elements, the j-th being the value of the j-th            *)
(* application of p, each application running on the remainder of the one  *)
(* before, and the remainder returned is the one the last application left.*)
(***************************************************************************)
TakeCollectsInOrder ==
    (Done /\ parser.k = "Take" /\ parser.count >= 0 /\ IsSome(outcome)) =>
        /\ IsVec(outcome.val)
        /\ Len(outcome.val.vec) = parser.count
        /\ \A j \in 1..parser.count :
              LET r == Application(parser.parser, stuff, j) IN
              IsSome(r) /\ outcome.val.vec[j] = r.val
        /\ outcome.rest = IF parser.count = 0 THEN stuff
                          ELSE Application(parser.parser, stuff, parser.count).rest

TakeCollectsInOrderWitness ==
    /\ Done
    /\ parser = Take(2, Item)
    /\ stuff = Utf8(<<97, 98, 233>>)
    /\ outcome = Some(VecV(<<CharV(97), CharV(98)>>), Utf8(<<233>>))

(***************************************************************************)
(* C3: Take is all or nothing: when one of the applications of p returns   *)
(* failure, Take returns failure, which carries neither a partial sequence *)
(* nor a remainder, and the text can be parsed again with the same result. *)
(***************************************************************************)
TakeAllOrNothing ==
    (Done /\ parser.k = "Take"
          /\ \E j \in 1..parser.count : Application(parser.parser, stuff, j) = None) =>
        /\ outcome = None
        /\ DOMAIN outcome = {"tag"}
        /\ call(parser, stuff).out = None

TakeAllOrNothingWitness ==
    /\ Done
    /\ parser = Take(3, Item)
    /\ stuff = Utf8(<<97, 98>>)
    /\ v = <<CharV(97), CharV(98)>>
    /\ rest = <<>>
    /\ outcome = None

(***************************************************************************)
(* C4: Take(0, p) succeeds with the empty sequence and the whole input,    *)
(* and never applies p, whatever p is.                                     *)
(***************************************************************************)
TakeZeroSucceeds ==
    (parser.k = "Take" /\ parser.count = 0) =>
        /\ applied = 0
        /\ Done => outcome = Some(VecV(<<>>), stuff)

TakeZeroSucceedsWitness ==
    /\ Done
    /\ parser = Take(0, Zero(<<"char">>))
    /\ stuff = Utf8(<<97, 98, 97>>)
    /\ outcome = Some(VecV(<<>>), stuff)

(***************************************************************************)
(* C5: Take with a negative count is rejected (the call fails) or treated  *)
(* as zero (the call succeeds with the empty sequence and the whole        *)
(* input); p is never applied.                                             *)
(***************************************************************************)
TakeNegativeCount ==
    (parser.k = "Take" /\ parser.count < 0) =>
        /\ applied = 0
        /\ Done => (outcome = None \/ outcome = Some(VecV(<<>>), stuff))

TakeNegativeCountWitness ==
    /\ Done
    /\ parser = Take(-2, Item)
    /\ stuff = Utf8(<<97, 98>>)
    /\ applied = 0
    /\ outcome = Some(VecV(<<>>), stuff)

(***************************************************************************)
(* C6: Bind(p, f): when p fails, Bind fails and f is never evaluated; when *)
(* p succeeds with (a, rest), f is evaluated exactly once, on a, after p   *)
(* has run, and Bind returns what f(a) returns on rest.                    *)
(***************************************************************************)
BindSequences ==
    parser.k = "Bind" =>
        LET r == call(parser.parser, stuff).out IN
        /\ Len(fEvals) <= 1
        /\ fEvals # <<>> => (applied = 1 /\ IsSome(r) /\ fEvals = <<r.val>>)
        /\ (Done /\ r = None) => (outcome = None /\ fEvals = <<>>)
        /\ (Done /\ IsSome(r)) =>
              /\ fEvals = <<r.val>>
              /\ outcome = call(ApplyCont(parser.func, r.val), r.rest).out

BindSequencesWitness ==
    /\ Done
    /\ parser = Bind(Item, hi_return)
    /\ stuff = Utf8(<<97, 98>>)
    /\ fEvals = <<CharV(97)>>
    /\ outcome = Some(StrV(HiPrefix \o <<97>>), <<98>>)

(***************************************************************************)
(* C7: Map(p, f) fails exactly when p fails, and when p succeeds with      *)
(* (a, rest) it succeeds with (f(a), rest), rest being the one p returned. *)
(***************************************************************************)
MapTransforms ==
    (Done /\ parser.k = "Map") =>
        LET r == call(parser.parser, stuff).out IN
        /\ (outcome = None) <=> (r = None)
        /\ IsSome(r) => outcome = Some(ApplyFunc(parser.func, r.val), r.rest)

MapTransformsWitness ==
    /\ Done
    /\ parser = Map(Item, hi)
    /\ stuff = Utf8(<<98, 97>>)
    /\ outcome = Some(StrV(HiPrefix \o <<98>>), <<97>>)

(***************************************************************************)
(* C8: bind is associative: bind(bind(p, f), g) and                        *)
(* bind(p, a => bind(f(a), g)) return the same outcome on every input.     *)
(***************************************************************************)
BindAssociative ==
    (Done /\ parser.k = "Bind" /\ parser.parser.k = "Bind") =>
        outcome = call(Bind(parser.parser.parser,
                            bind_then(parser.parser.func, parser.func)), stuff).out

BindAssociativeWitness ==
    /\ Done
    /\ parser = Bind(Bind(Item, then_item), hi_return)
    /\ stuff = Utf8(<<97, 98, 233>>)
    /\ outcome = Some(StrV(HiPrefix \o <<98>>), Utf8(<<233>>))

(***************************************************************************)
(* C9: for count >= 0 the loop of Take(count, p) returns the same outcome  *)
(* as bind folded over count repetitions of p, starting from Return of the *)
(* empty sequence and appending each value.                                *)
(***************************************************************************)
TakeIsFoldOfBind ==
    (Done /\ parser.k = "Take" /\ parser.count >= 0) =>
        outcome = call(TakeFold(parser.count, parser.parser), stuff).out

TakeIsFoldOfBindWitness ==
    /\ Done
    /\ parser = Take(3, Item)
    /\ stuff = Utf8(<<98, 97, 98>>)
    /\ outcome = Some(VecV(<<CharV(98), CharV(97), CharV(98)>>), <<>>)

(***************************************************************************)
(* C10: whenever a call succeeds, the remainder is the input with a whole  *)
(* number of leading symbols removed, that number being the number of      *)
(* successful Item applications made during the call.                      *)
(***************************************************************************)
ConsumesOnlyThroughItem ==
    (Done /\ IsSome(outcome)) =>
        /\ items <= Len(Chars(stuff))
        /\ outcome.rest = DropSymbols(stuff, items)

ConsumesOnlyThroughItemWitness ==
    /\ Done
    /\ parser = Bind(Take(2, Item), then_item)
    /\ stuff = Utf8(<<97, 98, 97>>)
    /\ items = 3
    /\ outcome = Some(CharV(97), <<>>)
====
